---------------------------- MODULE Spec2Model ----------------------------
(***************************************************************************)
(* dyngeseth-home: the useTranscriber hook (src/src/hooks/useTranscriber.ts) *)
(* as a state machine.  The file holds three revisions of the hook; the two *)
(* the specification is about are modelled, chosen by `variant`:            *)
(*   "segmented" : lines 226-595, cloud -> browser detection and the        *)
(*                 continuous, silence-segmented recorder (startCloudEngine)*)
(*   "threeTier" : lines 597-885, lytt -> cloud -> browser detection and    *)
(*                 one recording per toggle (startWhisperEngine).           *)
(* Time is counted in ticks of the sampler's period (TICK_MS).  Every       *)
(* callback of the event loop (promise continuation, timer, interval,       *)
(* recorder event, user call) is one action.                                *)
(***************************************************************************)
EXTENDS Integers, Sequences, FiniteSets, TLC

\* ------------------------------------------------------------- constants
TICK_MS == 100
LYTT_TIMEOUT_MS == 1500
CLOUD_TIMEOUT_MS == 3000
SILENCE_THRESHOLD == 10
SPEECH_THRESHOLD == 20
SILENCE_DELAY_MS == 1500
WARMUP_MS == 500
NOISE_FLOOR_BYTES == 500
\* validate.ts: MAX_BYTES = 25 * 1024 * 1024
MAX_BYTES == 26214400

LyttTimeoutTicks == LYTT_TIMEOUT_MS \div TICK_MS
CloudTimeoutTicks == CLOUD_TIMEOUT_MS \div TICK_MS
SilenceDelayTicks == SILENCE_DELAY_MS \div TICK_MS
WarmupTicks == WARMUP_MS \div TICK_MS

\* ---------------------------------------------------------------- bounds
\* getUserMedia grants per run (capture sessions ever opened)
MaxSessions == 2
\* MediaRecorder objects ever created
MaxRecorders == 3
\* identifiers handed out in a run of the store
MaxRecords == 3
\* characters of a text found in the slot
MaxChars == 3
\* started recognizer instances a language change has replaced
MaxReplaced == 2

\* ---------------------------------------------------------------- inputs
Variants == {"segmented", "threeTier"}
Backends == {"lytt", "cloud"}
\* HTTP statuses a health endpoint may answer with
Statuses == {200, 503}
\* what a fetch() with AbortSignal.timeout can end as
FetchOutcomes ==
    [kind : {"response"}, status : Statuses]
        \cup [kind : {"networkError", "abort"}, status : {0}]
\* average amplitudes the analyser may report (both sides of each threshold)
Amplitudes == {SILENCE_THRESHOLD - 1, SILENCE_THRESHOLD,
               SPEECH_THRESHOLD - 1, SPEECH_THRESHOLD}
\* bytes a recorder has buffered when it is stopped (its dataavailable event)
DataSizes == {0, NOISE_FLOOR_BYTES, NOISE_FLOOR_BYTES + 1}
\* texts a transcription call may return, as sequences of characters
Texts == {<< >>, <<" ">>, <<" ", "a">>}

VARIABLES
    variant,            \* which revision of the hook runs
    mounted,            \* the component is mounted
    browserSupported,   \* window.SpeechRecognition || webkitSpeechRecognition
    engine,             \* useState<Engine>(null): "null" | lytt | cloud | browser
    listening,          \* useState(false)
    isProcessing,       \* useState(false)
    error,              \* useState<string | null>(null)
    interim,            \* useState(''): the interim text on display
    transcripts,        \* useState<Transcript[]>(loadTranscripts)
    persisted,          \* localStorage[STORAGE_KEY]
    idCounter,          \* records created so far (crypto.randomUUID is fresh)
    loaded,             \* what loadTranscripts() returned when the hook mounted
    language,           \* useState<Language>('auto')
    apiKey,             \* the API's process.env['OPENAI_API_KEY'] is set
    request,            \* the HTTP request the API is handling
    response,           \* the HttpResponseInit its handler returned
    detectPc,           \* where detectEngine() is
    probe,              \* per backend: what its health probe returned
    probeOutcome,       \* per backend: how its fetch ended
    probeClock,         \* ticks since the pending probe was issued
    pendingStarts,      \* start*Engine calls awaiting getUserMedia
    sessions,           \* per granted stream: release calls, audio ctx, interval
    recorders,          \* every MediaRecorder created
    streamRef, continuousRef, audioCtxRef, silenceIntervalRef,
    mediaRecorderRef,
    silenceTimerRef,    \* ticks left on the pending closure timer, -1 = null
    sampleDue,          \* the running samplers' next callback is due
    sinceChunkStart,    \* Date.now() - chunkStartTimeRef, saturating at warm-up
    speechDetectedRef,
    chunksRef,          \* bytes buffered in chunksRef.current
    recognition,        \* the SpeechRecognition instance behind recognitionRef:
                        \* "none" (no facility) | idle | running | stopping
    replaced            \* how many instances that recognitionRef no longer
                        \* holds are still running, and still stopping

reactVars == <<engine, listening, isProcessing, error>>
storeVars == <<transcripts, persisted, idCounter>>
detectVars == <<detectPc, probe, probeOutcome, probeClock>>
captureVars == <<pendingStarts, sessions, recorders, streamRef, continuousRef,
                 audioCtxRef, silenceIntervalRef, mediaRecorderRef,
                 silenceTimerRef, sampleDue, sinceChunkStart,
                 speechDetectedRef, chunksRef>>
serverVars == <<apiKey, request, response>>
envVars == <<variant, mounted, replaced, browserSupported, loaded, language,
             serverVars>>
vars == <<envVars, reactVars, storeVars, detectVars, captureVars,
          recognition, interim>>

\* ------------------------------------------------------------- detection
\* Response.ok
ResOk(status) == status >= 200 /\ status <= 299

\* try { const res = await fetch(...); return res.ok } catch { return false }
checkLyttBridgeNoCatch(outcome) ==
    IF outcome.kind = "response"
    THEN [threw |-> FALSE, value |-> ResOk(outcome.status)]
    ELSE [threw |-> TRUE, value |-> FALSE]

checkLyttBridge(outcome) ==
    IF outcome.kind = "response"
    THEN [threw |-> FALSE, value |-> ResOk(outcome.status)]
    ELSE [threw |-> FALSE, value |-> FALSE]

checkCloudApi(outcome) ==
    IF outcome.kind = "response"
    THEN [threw |-> FALSE, value |-> ResOk(outcome.status)]
    ELSE [threw |-> FALSE, value |-> FALSE]

ProbeBudget(b) == IF b = "lytt" THEN LyttTimeoutTicks ELSE CloudTimeoutTicks

ProbeState(r) ==
    IF r.threw THEN "threw" ELSE IF r.value THEN "reachable" ELSE "unreachable"

\* detectEngine after `await checkLyttBridge()`: what it sets and whether it
\* goes on to probe the cloud function.
afterLyttNoReturn(r) ==
    IF r.threw THEN [pc |-> "rejected", engine |-> "null", next |-> FALSE]
    ELSE IF r.value THEN [pc |-> "awaitCloud", engine |-> "lytt", next |-> TRUE]
    ELSE [pc |-> "awaitCloud", engine |-> "null", next |-> TRUE]

afterLytt(r) ==
    IF r.threw THEN [pc |-> "rejected", engine |-> "null", next |-> FALSE]
    ELSE IF r.value THEN [pc |-> "done", engine |-> "lytt", next |-> FALSE]
    ELSE [pc |-> "awaitCloud", engine |-> "null", next |-> TRUE]

\* detectEngine after `await checkCloudApi()`
afterCloudSwapped(r) ==
    IF r.threw THEN [pc |-> "rejected", engine |-> "null"]
    ELSE IF r.value THEN [pc |-> "done", engine |-> "browser"]
    ELSE [pc |-> "done", engine |-> "cloud"]

afterCloud(r) ==
    IF r.threw THEN [pc |-> "rejected", engine |-> "null"]
    ELSE IF r.value THEN [pc |-> "done", engine |-> "cloud"]
    ELSE [pc |-> "done", engine |-> "browser"]

\* a fetch without the AbortSignal: it never ends on its own
MaySettleNoTimeout(b, outcome) ==
    /\ probe[b] = "pending"
    /\ outcome.kind # "abort"

\* the probe's fetch may settle with `outcome` now: an abort only at the
\* timeout boundary, anything else before or at it
MaySettle(b, outcome) ==
    /\ probe[b] = "pending"
    /\ outcome.kind = "abort" => probeClock = ProbeBudget(b)

LyttProbeSettles(outcome) ==
    /\ detectPc = "awaitLytt"
    /\ MaySettle("lytt", outcome)
    /\ LET r == checkLyttBridge(outcome)
           d == afterLytt(r)
       IN /\ probeOutcome' = [probeOutcome EXCEPT !["lytt"] = outcome]
          /\ probe' = [probe EXCEPT !["lytt"] = ProbeState(r),
                                    !["cloud"] = IF d.next THEN "pending" ELSE @]
          /\ detectPc' = d.pc
          /\ engine' = d.engine
          /\ probeClock' = 0
    /\ UNCHANGED <<envVars, listening, isProcessing, error, storeVars,
                   captureVars, recognition, interim>>

CloudProbeSettles(outcome) ==
    /\ detectPc = "awaitCloud"
    /\ MaySettle("cloud", outcome)
    /\ LET r == checkCloudApi(outcome)
           d == afterCloud(r)
       IN /\ probeOutcome' = [probeOutcome EXCEPT !["cloud"] = outcome]
          /\ probe' = [probe EXCEPT !["cloud"] = ProbeState(r)]
          /\ detectPc' = d.pc
          /\ engine' = IF d.engine = "null" THEN engine ELSE d.engine
          /\ probeClock' = 0
    /\ UNCHANGED <<envVars, listening, isProcessing, error, storeVars,
                   captureVars, recognition, interim>>


\* what the hook returns beside the state (lines 580-585, 863-868)
NetworkTiers == IF variant = "threeTier" THEN {"lytt", "cloud"} ELSE {"cloud"}

canTranscribeIgnoringFacility == engine \in NetworkTiers \cup {"browser"}

canTranscribe == engine \in NetworkTiers \/ browserSupported

\* ----------------------------------------------------------------- store
\* String.prototype.trim on a sequence of characters
RECURSIVE TrimStart(_)
TrimStart(t) ==
    IF t # << >> /\ Head(t) = " " THEN TrimStart(Tail(t)) ELSE t

RECURSIVE TrimEnd(_)
TrimEnd(t) ==
    IF t # << >> /\ t[Len(t)] = " " THEN TrimEnd(SubSeq(t, 1, Len(t) - 1)) ELSE t

Trim(t) == TrimEnd(TrimStart(t))

\* the `source` member of a Transcript
Sources == {"lytt", "cloud", "browser"}

\* the strings of the program as sequences of characters
Chars ==
    [id |-> <<"i", "d">>, text |-> <<"t", "e", "x", "t">>,
     source |-> <<"s", "o", "u", "r", "c", "e">>,
     lytt |-> <<"l", "y", "t", "t">>, cloud |-> <<"c", "l", "o", "u", "d">>,
     browser |-> <<"b", "r", "o", "w", "s", "e", "r">>]

\* crypto.randomUUID(): the n-th identifier handed out, an opaque string
\* that differs from every other one
randomUUID(n) == [i \in 1..n |-> "u"]

\* JSON's string escapes, for the characters the model's texts are made of
RECURSIVE Escape(_)
Escape(t) ==
    IF t = << >> THEN << >>
    ELSE (IF Head(t) \in {"\"", "\\"} THEN <<"\\", Head(t)>> ELSE <<Head(t)>>)
             \o Escape(Tail(t))

\* a string written without escapes
QuoteRaw(t) == <<"\"">> \o t \o <<"\"">>

\* JSON.stringify of a string
Quote(t) == <<"\"">> \o Escape(t) \o <<"\"">>

\* "key":"value"
Member(k, v) == Quote(k) \o <<":">> \o Quote(v)

\* JSON.stringify of one Transcript, its members in the order the entry
\* literal lists them (language and createdAt are not modelled)
StringifyEntry(e) ==
    <<"{">> \o Member(Chars.id, randomUUID(e.id)) \o <<",">>
            \o Member(Chars.text, e.text) \o <<",">>
            \o Member(Chars.source, Chars[e.source]) \o <<"}">>

RECURSIVE StringifyElements(_)
StringifyElements(items) ==
    IF items = << >> THEN << >>
    ELSE StringifyEntry(Head(items))
             \o (IF Len(items) > 1 THEN <<",">> ELSE << >>)
             \o StringifyElements(Tail(items))

\* localStorage after setItem(STORAGE_KEY, JSON.stringify(items))
JSONstringify(items) ==
    [kind |-> "string", chars |-> <<"[">> \o StringifyElements(items) \o <<"]">>]

\* what a parsing step returns: whether the text was well formed so far, the
\* value read (its JSON type and its content) and the position after it
ParseFail ==
    [ok |-> FALSE, value |-> [type |-> "none", body |-> << >>], next |-> 0]

Parsed(type, body, next) ==
    [ok |-> TRUE, value |-> [type |-> type, body |-> body], next |-> next]

Digits == {"0", "1", "2", "3", "4", "5", "6", "7", "8", "9"}

\* the characters of a JSON string whose opening quote has been read
RECURSIVE ReadString(_, _, _)
ReadString(s, i, acc) ==
    IF i > Len(s) THEN ParseFail
    ELSE IF s[i] = "\"" THEN Parsed("string", acc, i + 1)
    ELSE IF s[i] = "\\"
         THEN IF i + 1 <= Len(s) /\ s[i + 1] \in {"\"", "\\"}
              THEN ReadString(s, i + 2, Append(acc, s[i + 1]))
              ELSE ParseFail
    ELSE ReadString(s, i + 1, Append(acc, s[i]))

ParseString(s, i) ==
    IF i <= Len(s) /\ s[i] = "\"" THEN ReadString(s, i + 1, << >>) ELSE ParseFail

\* the position after a run of digits
RECURSIVE ReadDigits(_, _)
ReadDigits(s, i) ==
    IF i <= Len(s) /\ s[i] \in Digits THEN ReadDigits(s, i + 1) ELSE i

\* a JSON number made of digits: no digit may follow a leading zero
ParseNumber(s, i) ==
    IF i > Len(s) \/ s[i] \notin Digits THEN ParseFail
    ELSE LET next == IF s[i] = "0" THEN i + 1 ELSE ReadDigits(s, i)
         IN Parsed("number", SubSeq(s, i, next - 1), next)

\* null, true or false
ParseLiteral(s, i) ==
    LET Is(word) == /\ i + Len(word) - 1 <= Len(s)
                    /\ SubSeq(s, i, i + Len(word) - 1) = word
    IN IF Is(<<"n", "u", "l", "l">>) THEN Parsed("null", << >>, i + 4)
       ELSE IF Is(<<"t", "r", "u", "e">>) THEN Parsed("boolean", <<"t">>, i + 4)
       ELSE IF Is(<<"f", "a", "l", "s", "e">>) THEN Parsed("boolean", <<"f">>, i + 5)
       ELSE ParseFail

RECURSIVE ParseValue(_, _)
RECURSIVE ReadMembers(_, _, _)
RECURSIVE ReadElements(_, _, _)

\* the members of an object after "{" or ",": a sequence of <<key, value>>
ReadMembers(s, i, acc) ==
    LET k == ParseString(s, i)
        v == ParseValue(s, k.next + 1)
        members == Append(acc, <<k.value.body, v.value>>)
    IN IF ~k.ok \/ k.next > Len(s) \/ s[k.next] # ":" THEN ParseFail
       ELSE IF ~v.ok \/ v.next > Len(s) THEN ParseFail
       ELSE IF s[v.next] = "}" THEN Parsed("object", members, v.next + 1)
       ELSE IF s[v.next] = "," THEN ReadMembers(s, v.next + 1, members)
       ELSE ParseFail

ParseObject(s, i) ==
    IF i > Len(s) \/ s[i] # "{" THEN ParseFail
    ELSE IF i + 1 <= Len(s) /\ s[i + 1] = "}"
         THEN Parsed("object", << >>, i + 2)
    ELSE ReadMembers(s, i + 1, << >>)

\* the elements of an array after "[" or ","
ReadElements(s, i, acc) ==
    LET e == ParseValue(s, i)
        elements == Append(acc, e.value)
    IN IF ~e.ok \/ e.next > Len(s) THEN ParseFail
       ELSE IF s[e.next] = "]" THEN Parsed("array", elements, e.next + 1)
       ELSE IF s[e.next] = "," THEN ReadElements(s, e.next + 1, elements)
       ELSE ParseFail

ParseArray(s, i) ==
    IF i > Len(s) \/ s[i] # "[" THEN ParseFail
    ELSE IF i + 1 <= Len(s) /\ s[i + 1] = "]"
         THEN Parsed("array", << >>, i + 2)
    ELSE ReadElements(s, i + 1, << >>)

\* one JSON value starting at position i (texts without white space)
ParseValue(s, i) ==
    IF i > Len(s) THEN ParseFail
    ELSE IF s[i] = "[" THEN ParseArray(s, i)
    ELSE IF s[i] = "{" THEN ParseObject(s, i)
    ELSE IF s[i] = "\"" THEN ParseString(s, i)
    ELSE IF s[i] \in Digits THEN ParseNumber(s, i)
    ELSE ParseLiteral(s, i)

\* JSON.parse(text): it throws unless the whole text is one JSON value
JSONparse(text) ==
    LET r == ParseValue(text, 1)
    IN IF r.ok /\ r.next = Len(text) + 1
       THEN [threw |-> FALSE, value |-> r.value]
       ELSE [threw |-> TRUE, value |-> ParseFail.value]

\* the [] of `?? '[]'` read back, and of `catch { return [] }`
EmptyArray == [type |-> "array", body |-> << >>]

\* try { return JSON.parse(localStorage.getItem(STORAGE_KEY) ?? '[]') }
\* catch { return [] }
loadTranscripts(slot) ==
    LET r == JSONparse(IF slot.kind = "missing" THEN <<"[", "]">> ELSE slot.chars)
    IN IF r.threw THEN EmptyArray ELSE r.value

\* whether a parsed object has a member `key`
Has(obj, key) == \E i \in DOMAIN obj : obj[i][1] = key

\* the value of member `key` of a parsed object (the last one wins)
RECURSIVE Get(_, _)
Get(obj, key) ==
    IF obj[Len(obj)][1] = key THEN obj[Len(obj)][2]
    ELSE Get(SubSeq(obj, 1, Len(obj) - 1), key)

\* a parsed value that has the shape of a Transcript
IsTranscript(v) ==
    /\ v.type = "object"
    /\ \A k \in {"id", "text", "source"} :
           Has(v.body, Chars[k]) /\ Get(v.body, Chars[k]).type = "string"
    /\ \E src \in Sources : Chars[src] = Get(v.body, Chars.source).body

\* a parsed value that is a list of transcripts
IsTranscriptList(v) ==
    v.type = "array" /\ \A i \in DOMAIN v.body : IsTranscript(v.body[i])

\* a parsed object as the Transcript it was written from
Revive(obj) ==
    [id |-> Len(Get(obj, Chars.id).body), text |-> Get(obj, Chars.text).body,
     source |-> CHOOSE src \in Sources : Chars[src] = Get(obj, Chars.source).body]

\* a parsed list of transcripts as the Transcript[] the hook holds
RECURSIVE ReviveAll(_)
ReviveAll(elements) ==
    IF elements = << >> THEN << >>
    ELSE <<Revive(Head(elements).body)>> \o ReviveAll(Tail(elements))

\* useState<Transcript[]>(loadTranscripts), the slot holding nothing, text
\* that is not JSON, or a list of transcripts
InitialTranscripts(slot) == ReviveAll(loadTranscripts(slot).body)


\* an insertion at the tail: [...prev, entry]
AppendEntry(entry, prev) == prev \o <<entry>>

\* const updated = [entry, ...prev]
Prepend(entry, prev) == <<entry>> \o prev

\* an insertion that keeps nothing of the list it found
InsertReplacing(text, source) ==
    IF Trim(text) # << >>
    THEN /\ transcripts' = <<[id |-> idCounter + 1, text |-> Trim(text),
                              source |-> source]>>
         /\ persisted' = JSONstringify(transcripts')
         /\ idCounter' = idCounter + 1
    ELSE UNCHANGED storeVars

\* an insertion that does not look at the text
InsertAlways(text, source) ==
    /\ transcripts' = Prepend([id |-> idCounter + 1, text |-> Trim(text),
                               source |-> source], transcripts)
    /\ persisted' = JSONstringify(transcripts')
    /\ idCounter' = idCounter + 1

\* an insertion that drops the result once the session has stopped
InsertIfListening(text, source) ==
    IF Trim(text) # << >> /\ listening
    THEN /\ transcripts' = Prepend([id |-> idCounter + 1, text |-> Trim(text),
                                    source |-> source], transcripts)
         /\ persisted' = JSONstringify(transcripts')
         /\ idCounter' = idCounter + 1
    ELSE UNCHANGED storeVars

\* if (text.trim()) { setTranscripts(prev => [entry, ...prev]); save }
\* the store after a call returned `text` for a recording of `source`
InsertIfText(text, source) ==
    IF Trim(text) # << >>
    THEN LET entry == [id |-> idCounter + 1, text |-> Trim(text),
                       source |-> source]
             updated == Prepend(entry, transcripts)
         IN /\ transcripts' = updated
            /\ persisted' = JSONstringify(updated)
            /\ idCounter' = idCounter + 1
    ELSE UNCHANGED storeVars

\* --------------------------------------------------------------- capture
NewSession(withSampler) ==
    [released |-> 0,
     ctx |-> IF withSampler THEN "running" ELSE "none",
     interval |-> IF withSampler THEN "running" ELSE "none"]

\* state: recording | inactive (stop() called, its dataavailable and stop
\* events queued) | inflight (onstop awaits the transcription) | done.
\* heard, closedBy and data describe the open segment for the properties:
\* a reading at or above the speech threshold fell in it, who stopped it,
\* the bytes it had buffered when stopped.
NewRecorder(stream, source) ==
    [session |-> stream, state |-> "recording", source |-> source,
     heard |-> FALSE, closedBy |-> "none", data |-> 0]

\* a recorder whose stop handler has run to its end
Finished(rec) ==
    [rec EXCEPT !.state = "done", !.heard = FALSE, !.closedBy = "none",
                !.data = 0]

\* s?.getTracks().forEach((t) => t.stop()) on stream k (0 = null)
Release(ss, k) ==
    IF k = 0 THEN ss ELSE [ss EXCEPT ![k].released = @ + 1]

\* recorder.stop() on recorder r, which has buffered `data` bytes,
\* remembered as closed by `who`
Stop(recs, r, who, data) ==
    [recs EXCEPT ![r].state = "inactive", ![r].closedBy = who,
                 ![r].data = data]

IsRecording(r) == r # 0 /\ recorders[r].state = "recording"

\* startChunk() (segmented, lines 459-511) called when continuousRef.current
\* is `cont` and streamRef.current is `sref`, on recorders `recs`, with
\* `chunks` bytes in the shared buffer
startChunk(cont, sref, recs, chunks) ==
    IF ~cont \/ sref = 0
    THEN /\ recorders' = recs
         /\ chunksRef' = chunks
         /\ UNCHANGED <<mediaRecorderRef, sinceChunkStart, speechDetectedRef>>
    ELSE /\ Len(recs) < MaxRecorders
         /\ recorders' = Append(recs, NewRecorder(sref, "cloud"))
         /\ mediaRecorderRef' = Len(recs) + 1
         /\ chunksRef' = 0
         /\ sinceChunkStart' = 0
         /\ speechDetectedRef' = FALSE

\* a stop handler that tears the session down whatever the flag says
CleanUpAlways(recs, chunks) ==
    /\ sessions' = Release(sessions, streamRef)
    /\ streamRef' = 0
    /\ recorders' = recs
    /\ chunksRef' = chunks
    /\ UNCHANGED <<mediaRecorderRef, sinceChunkStart, speechDetectedRef>>

\* "Continue loop or clean up" at the end of recorder.onstop (lines 499-506)
ContinueOrCleanUp(recs, chunks) ==
    IF continuousRef
    THEN /\ startChunk(continuousRef, streamRef, recs, chunks)
         /\ UNCHANGED <<streamRef, sessions>>
    ELSE /\ sessions' = Release(sessions, streamRef)
         /\ streamRef' = 0
         /\ recorders' = recs
         /\ chunksRef' = chunks
         /\ UNCHANGED <<mediaRecorderRef, sinceChunkStart, speechDetectedRef>>

\* the filter without its speech check
ShouldDispatchBySize(size, speech) == size > NOISE_FLOOR_BYTES

\* the filter with the floor itself passing
ShouldDispatchAtFloor(size, speech) == size >= NOISE_FLOOR_BYTES /\ speech

\* the filter of recorder.onstop (line 474)
ShouldDispatch(size, speech) == size > NOISE_FLOOR_BYTES /\ speech


MicError == "Could not access microphone."
RecognitionErrorMessage == "Microphone error. Please try again."
\* err.message of whatever the call threw, or this text (lines 494, 811)
TranscriptionError == "Transcription failed."

NoneReplaced == [running |-> 0, stopping |-> 0]

\* recognitionRef.current?.start(): throws InvalidStateError when the
\* instance is already started, which ends the calling handler
StartThrows == recognition \in {"running", "stopping"}
AfterRecognitionStart == IF recognition = "idle" THEN "running" ELSE recognition
\* recognitionRef.current?.stop()
AfterRecognitionStop == IF recognition = "running" THEN "stopping" ELSE recognition

\* toggle, not listening, engine is not a network tier (lines 552-555, 842-845)
StartRecognition ==
    /\ IF StartThrows
       THEN UNCHANGED <<recognition, listening, error, interim>>
       ELSE /\ recognition' = AfterRecognitionStart
            /\ listening' = TRUE
            /\ error' = "null"
            /\ interim' = << >>
    /\ UNCHANGED <<envVars, engine, isProcessing, storeVars, detectVars,
                   captureVars>>

\* toggle, listening, engine is not a network tier (lines 545-546, 833-835)
StopRecognition ==
    /\ recognition' = AfterRecognitionStop
    /\ listening' = FALSE
    /\ UNCHANGED <<envVars, engine, isProcessing, error, storeVars,
                   detectVars, captureVars, interim>>

\* toggle, not listening, network tier: start*Engine() runs up to its
\* `await getUserMedia` (lines 550 and 406-407, 838-840 and 775)
CallStartEngine(source) ==
    /\ Len(pendingStarts) + Len(sessions) < MaxSessions
    /\ pendingStarts' = Append(pendingStarts, source)
    /\ UNCHANGED <<envVars, reactVars, storeVars, detectVars, sessions,
                   recorders, streamRef, continuousRef, audioCtxRef,
                   silenceIntervalRef, mediaRecorderRef, silenceTimerRef, sampleDue,
                   sinceChunkStart, speechDetectedRef, chunksRef, recognition, interim>>

\* toggle, listening, engine === 'cloud' (segmented, lines 521-543)
StopCloudEngine ==
    LET cleared == IF silenceIntervalRef = 0 THEN sessions
                   ELSE [sessions EXCEPT ![silenceIntervalRef].interval = "cleared"]
        closed == IF audioCtxRef = 0 THEN cleared
                  ELSE [cleared EXCEPT ![audioCtxRef].ctx = "closed"]
    IN /\ continuousRef' = FALSE
       /\ silenceTimerRef' = -1
       /\ silenceIntervalRef' = 0
       /\ audioCtxRef' = 0
       /\ IF IsRecording(mediaRecorderRef)
          THEN /\ \E d \in DataSizes :
                    recorders' = Stop(recorders, mediaRecorderRef, "toggle", d)
               /\ sessions' = closed
               /\ UNCHANGED streamRef
          ELSE /\ sessions' = Release(closed, streamRef)
               /\ streamRef' = 0
               /\ UNCHANGED recorders
       /\ sampleDue' = (sampleDue /\ \E k \in DOMAIN cleared :
                                      cleared[k].interval = "running")
       /\ listening' = FALSE
       /\ UNCHANGED <<envVars, engine, isProcessing, error, storeVars,
                      detectVars, pendingStarts, mediaRecorderRef,
                      sinceChunkStart, speechDetectedRef, chunksRef,
                      recognition, interim>>

\* the cleanup of the mount effect, run when the component unmounts
\* (segmented, lines 333-355)
Unmount ==
    LET cleared == IF silenceIntervalRef = 0 THEN sessions
                   ELSE [sessions EXCEPT ![silenceIntervalRef].interval = "cleared"]
        closed == IF audioCtxRef = 0 THEN cleared
                  ELSE [cleared EXCEPT ![audioCtxRef].ctx = "closed"]
    IN /\ variant = "segmented"
       /\ mounted
       /\ mounted' = FALSE
       /\ continuousRef' = FALSE
       /\ silenceTimerRef' = -1
       /\ silenceIntervalRef' = 0
       /\ audioCtxRef' = 0
       /\ IF IsRecording(mediaRecorderRef)
          THEN /\ \E d \in DataSizes :
                    recorders' = Stop(recorders, mediaRecorderRef, "unmount", d)
               /\ sessions' = closed
               /\ UNCHANGED streamRef
          ELSE /\ sessions' = Release(closed, streamRef)
               /\ streamRef' = 0
               /\ UNCHANGED recorders
       /\ sampleDue' = (sampleDue /\ \E k \in DOMAIN cleared :
                                      cleared[k].interval = "running")
       /\ recognition' = AfterRecognitionStop
       /\ UNCHANGED <<variant, replaced, browserSupported, loaded, language, serverVars,
                      reactVars, storeVars, detectVars, pendingStarts,
                      mediaRecorderRef, sinceChunkStart, speechDetectedRef,
                      chunksRef, interim>>

\* toggle of the segmented revision (lines 518-558)
ToggleSegmented ==
    /\ variant = "segmented"
    /\ IF listening
       THEN IF engine = "cloud" THEN StopCloudEngine ELSE StopRecognition
       ELSE IF engine = "cloud" THEN CallStartEngine("cloud")
            ELSE StartRecognition

\* toggle, listening, network tier (threeTier, lines 830-831, 835).
\* MediaRecorder.stop() on an inactive recorder throws InvalidStateError in
\* some browsers, which ends toggle before setListening(false), and returns
\* silently in others
StopWhisperEngine ==
    /\ IF mediaRecorderRef = 0
       THEN /\ listening' = FALSE
            /\ UNCHANGED recorders
       ELSE IF IsRecording(mediaRecorderRef)
            THEN /\ \E d \in DataSizes :
                      recorders' = Stop(recorders, mediaRecorderRef, "toggle", d)
                 /\ listening' = FALSE
            ELSE /\ \E throws \in BOOLEAN :
                      listening' = IF throws THEN listening ELSE FALSE
                 /\ UNCHANGED recorders
    /\ UNCHANGED <<envVars, engine, isProcessing, error, storeVars,
                   detectVars, pendingStarts, sessions, streamRef,
                   continuousRef, audioCtxRef, silenceIntervalRef,
                   mediaRecorderRef, silenceTimerRef, sampleDue, sinceChunkStart,
                   speechDetectedRef, chunksRef, recognition, interim>>

\* toggle of the three-tier revision (lines 828-848)
ToggleThreeTier ==
    /\ variant = "threeTier"
    /\ IF listening
       THEN IF engine \in {"lytt", "cloud"} THEN StopWhisperEngine
            ELSE StopRecognition
       ELSE IF engine \in {"lytt", "cloud"} THEN CallStartEngine(engine)
            ELSE StartRecognition


RemoveAt(q, i) == SubSeq(q, 1, i - 1) \o SubSeq(q, i + 1, Len(q))

\* getUserMedia resolves with a stream: the rest of startCloudEngine
\* (segmented, lines 412-515)
StartCloudEngineGranted(i) ==
    /\ variant = "segmented"
    /\ i \in DOMAIN pendingStarts
    /\ LET k == Len(sessions) + 1
       IN /\ sessions' = Append(sessions, NewSession(TRUE))
          /\ streamRef' = k
          /\ continuousRef' = TRUE
          /\ audioCtxRef' = k
          /\ silenceIntervalRef' = k
          /\ startChunk(TRUE, k, recorders, chunksRef)
    /\ pendingStarts' = RemoveAt(pendingStarts, i)
    /\ listening' = TRUE
    /\ error' = "null"
    /\ UNCHANGED <<envVars, engine, isProcessing, storeVars, detectVars,
                   silenceTimerRef, sampleDue, recognition, interim>>

\* getUserMedia resolves with a stream: the rest of startWhisperEngine
\* (threeTier, lines 778-820)
StartWhisperEngineGranted(i) ==
    /\ variant = "threeTier"
    /\ i \in DOMAIN pendingStarts
    /\ Len(recorders) < MaxRecorders
    /\ sessions' = Append(sessions, NewSession(FALSE))
    /\ recorders' = Append(recorders,
                           NewRecorder(Len(sessions) + 1, pendingStarts[i]))
    /\ chunksRef' = 0
    /\ mediaRecorderRef' = Len(recorders) + 1
    /\ pendingStarts' = RemoveAt(pendingStarts, i)
    /\ listening' = TRUE
    /\ error' = "null"
    /\ UNCHANGED <<envVars, engine, isProcessing, storeVars, detectVars,
                   streamRef, continuousRef, audioCtxRef, silenceIntervalRef,
                   silenceTimerRef, sampleDue, sinceChunkStart, speechDetectedRef,
                   recognition, interim>>

\* a start that marks the session as capturing before it has a stream
StartDeniedAfterListening(i) ==
    /\ i \in DOMAIN pendingStarts
    /\ pendingStarts' = RemoveAt(pendingStarts, i)
    /\ error' = MicError
    /\ listening' = TRUE
    /\ continuousRef' = TRUE
    /\ UNCHANGED <<envVars, engine, isProcessing, storeVars,
                   detectVars, sessions, recorders, streamRef,
                   audioCtxRef, silenceIntervalRef, mediaRecorderRef,
                   silenceTimerRef, sampleDue, sinceChunkStart, speechDetectedRef,
                   chunksRef, recognition, interim>>

\* getUserMedia rejects (lines 407-411, 821-823)
StartDenied(i) ==
    /\ i \in DOMAIN pendingStarts
    /\ pendingStarts' = RemoveAt(pendingStarts, i)
    /\ error' = MicError
    /\ UNCHANGED <<envVars, engine, listening, isProcessing, storeVars,
                   detectVars, sessions, recorders, streamRef, continuousRef,
                   audioCtxRef, silenceIntervalRef, mediaRecorderRef,
                   silenceTimerRef, sampleDue, sinceChunkStart, speechDetectedRef,
                   chunksRef, recognition, interim>>

\* the sampler without its warm-up check
SamplerSkipsNoWarmup == ~continuousRef

\* the sampler's early returns (lines 431-433)
SamplerSkips == ~continuousRef \/ sinceChunkStart < WarmupTicks
\* line 439
SpeechAfter(avg) == speechDetectedRef \/ avg >= SPEECH_THRESHOLD
\* lines 441-455: the closure timer after a reading of `avg`
TimerAfter(avg) ==
    IF avg < SILENCE_THRESHOLD
    THEN IF silenceTimerRef = -1 THEN SilenceDelayTicks ELSE silenceTimerRef
    ELSE -1

\* every open segment (recording, or stopped with its stop event pending)
\* remembers whether a reading at or above the speech threshold fell in it
Hear(recs, avg) ==
    [r \in DOMAIN recs |->
        IF recs[r].state \in {"recording", "inactive"} /\ avg >= SPEECH_THRESHOLD
        THEN [recs[r] EXCEPT !.heard = TRUE] ELSE recs[r]]

SamplerRunning == \E k \in DOMAIN sessions : sessions[k].interval = "running"

\* the setInterval callback reads amplitude avg (lines 430-456).  Samplers
\* of several sessions analyse the same microphone and are due together:
\* they read the same avg, and the callback run twice on the same reading
\* leaves what it left the first time.
Sample(avg) ==
    /\ sampleDue
    /\ sampleDue' = FALSE
    /\ recorders' = Hear(recorders, avg)
    /\ IF SamplerSkips \/ ~SamplerRunning
       THEN UNCHANGED <<speechDetectedRef, silenceTimerRef>>
       ELSE /\ speechDetectedRef' = SpeechAfter(avg)
            /\ silenceTimerRef' = TimerAfter(avg)
    /\ UNCHANGED <<envVars, reactVars, storeVars, detectVars, pendingStarts,
                   sessions, streamRef, continuousRef, audioCtxRef,
                   silenceIntervalRef, mediaRecorderRef, sinceChunkStart,
                   chunksRef, recognition, interim>>

\* the closure timer's callback (lines 443-448)
SilenceTimerFires ==
    /\ silenceTimerRef = 0
    /\ silenceTimerRef' = -1
    /\ IF IsRecording(mediaRecorderRef)
       THEN \E d \in DataSizes :
               recorders' = Stop(recorders, mediaRecorderRef, "timer", d)
       ELSE UNCHANGED recorders
    /\ UNCHANGED <<envVars, reactVars, storeVars, detectVars, pendingStarts,
                   sessions, streamRef, continuousRef, audioCtxRef,
                   silenceIntervalRef, mediaRecorderRef, sampleDue, sinceChunkStart,
                   speechDetectedRef, chunksRef, recognition, interim>>

\* ondataavailable (lines 466-468, 782-784): the buffer after the event
AfterData(data) == IF data > 0 THEN chunksRef + data ELSE chunksRef

\* blob.size of the blob recorder r's stop handler builds (lines 471-472)
BlobSize(r) == AfterData(recorders[r].data)

\* a stopped recorder's dataavailable and stop events: recorder.onstop up to
\* its await, or to its end when the segment is discarded
\* (segmented, lines 470-507)
SegmentStopEvent(r) ==
    /\ variant = "segmented"
    /\ r \in DOMAIN recorders
    /\ recorders[r].state = "inactive"
    /\ IF ShouldDispatch(BlobSize(r), speechDetectedRef)
       THEN /\ isProcessing' = TRUE
            /\ error' = "null"
            /\ recorders' = [recorders EXCEPT ![r].state = "inflight"]
            /\ chunksRef' = BlobSize(r)
            /\ UNCHANGED <<sessions, streamRef, mediaRecorderRef,
                           sinceChunkStart, speechDetectedRef>>
       ELSE /\ ContinueOrCleanUp(
                  [recorders EXCEPT ![r] = Finished(@)], BlobSize(r))
            /\ UNCHANGED <<isProcessing, error>>
    /\ UNCHANGED <<envVars, engine, listening, storeVars, detectVars,
                   pendingStarts, continuousRef, audioCtxRef,
                   silenceIntervalRef, silenceTimerRef, sampleDue,
                   recognition, interim>>

\* (threeTier, lines 786-795)
RecordingStopEvent(r) ==
    /\ variant = "threeTier"
    /\ r \in DOMAIN recorders
    /\ recorders[r].state = "inactive"
    /\ sessions' = Release(sessions, recorders[r].session)
    /\ isProcessing' = TRUE
    /\ error' = "null"
    /\ recorders' = [recorders EXCEPT ![r].state = "inflight"]
    /\ chunksRef' = BlobSize(r)
    /\ UNCHANGED <<envVars, engine, listening, storeVars, detectVars,
                   pendingStarts, streamRef, continuousRef, audioCtxRef,
                   silenceIntervalRef, mediaRecorderRef, silenceTimerRef, sampleDue,
                   sinceChunkStart, speechDetectedRef, recognition, interim>>

\* what a transcription call may settle as
CallResults == [ok : {TRUE}, text : Texts] \cup [ok : {FALSE}, text : {<< >>}]

\* the transcription call of recorder r settles: the rest of recorder.onstop
\* (segmented 478-506, threeTier 795-814)
TranscribeSettles(r, res) ==
    /\ r \in DOMAIN recorders
    /\ recorders[r].state = "inflight"
    /\ IF res.ok THEN InsertIfText(res.text, recorders[r].source)
       ELSE UNCHANGED storeVars
    /\ error' = IF res.ok THEN error ELSE TranscriptionError
    /\ isProcessing' = FALSE
    /\ IF variant = "segmented"
       THEN ContinueOrCleanUp([recorders EXCEPT ![r] = Finished(@)], chunksRef)
       ELSE /\ recorders' = [recorders EXCEPT ![r] = Finished(@)]
            /\ UNCHANGED <<sessions, streamRef, mediaRecorderRef,
                           sinceChunkStart, speechDetectedRef, chunksRef>>
    /\ UNCHANGED <<envVars, engine, listening, detectVars, pendingStarts,
                   continuousRef, audioCtxRef, silenceIntervalRef,
                   silenceTimerRef, sampleDue, recognition, interim>>

\* what one result event carries: its interim and its final results, each
\* joined into one text
ResultEvents == [interimText : {<< >>, <<"i">>}, finalText : Texts]

\* a result handler that stores interim text along with the final text
RecognitionResultPersistsInterim(ev) ==
    /\ recognition \in {"running", "stopping"}
    /\ Trim(ev.finalText) # << >> => idCounter < MaxRecords
    /\ InsertIfText(ev.finalText \o ev.interimText, "browser")
    /\ interim' = ev.interimText
    /\ UNCHANGED <<envVars, reactVars, detectVars, captureVars, recognition>>

\* recognition.onresult (lines 366-392, 730-754); a recognizer that was told
\* to stop may still deliver results until its end event
RecognitionResult(ev) ==
    /\ recognition \in {"running", "stopping"}
    /\ Trim(ev.finalText) # << >> => idCounter < MaxRecords
    /\ InsertIfText(ev.finalText, "browser")
    /\ interim' = IF Trim(ev.finalText) # << >> THEN << >> ELSE ev.interimText
    /\ UNCHANGED <<envVars, reactVars, detectVars, captureVars, recognition>>

\* recognition.onend (lines 394, 756)
RecognitionEnd ==
    /\ recognition \in {"running", "stopping"}
    /\ recognition' = "idle"
    /\ listening' = FALSE
    /\ UNCHANGED <<envVars, engine, isProcessing, error, storeVars,
                   detectVars, captureVars, interim>>

\* an error handler that tells nobody
RecognitionErrorSilent ==
    /\ recognition = "running"
    /\ recognition' = "stopping"
    /\ UNCHANGED <<envVars, reactVars, storeVars, detectVars, captureVars,
                   interim>>

\* recognition.onerror (lines 395-398, 757-760); the end event follows
RecognitionError ==
    /\ recognition = "running"
    /\ recognition' = "stopping"
    /\ listening' = FALSE
    /\ error' = RecognitionErrorMessage
    /\ UNCHANGED <<envVars, engine, isProcessing, storeVars, detectVars,
                   captureVars, interim>>

\* setLanguage(l) with another value: the recognizer effect runs again
\* (deps [language], no cleanup) and stores a new instance in recognitionRef;
\* the instance it replaces is neither stopped nor aborted
setLanguage(l) ==
    /\ l # language
    /\ language' = l
    /\ IF recognition \in {"running", "stopping"}
       THEN /\ replaced.running + replaced.stopping < MaxReplaced
            /\ replaced' = [replaced EXCEPT ![recognition] = @ + 1]
       ELSE UNCHANGED replaced
    /\ recognition' = IF recognition = "none" THEN "none" ELSE "idle"
    /\ UNCHANGED <<variant, mounted, browserSupported, loaded, serverVars,
                   reactVars, storeVars, detectVars, captureVars, interim>>

Started == {st \in {"running", "stopping"} : replaced[st] > 0}

\* recognition.onresult of a replaced instance
ReplacedResult(ev) ==
    /\ Started # {}
    /\ Trim(ev.finalText) # << >> => idCounter < MaxRecords
    /\ InsertIfText(ev.finalText, "browser")
    /\ interim' = IF Trim(ev.finalText) # << >> THEN << >> ELSE ev.interimText
    /\ UNCHANGED <<envVars, reactVars, detectVars, captureVars, recognition>>

\* recognition.onend of a replaced instance
ReplacedEnd ==
    \E st \in Started :
        /\ replaced' = [replaced EXCEPT ![st] = @ - 1]
        /\ listening' = FALSE
        /\ UNCHANGED <<variant, mounted, browserSupported, loaded, language,
                       serverVars, engine, isProcessing, error, storeVars,
                       detectVars, captureVars, recognition, interim>>

\* recognition.onerror of a replaced instance; the end event follows
ReplacedError ==
    /\ replaced.running > 0
    /\ replaced' = [running |-> replaced.running - 1,
                    stopping |-> replaced.stopping + 1]
    /\ listening' = FALSE
    /\ error' = RecognitionErrorMessage
    /\ UNCHANGED <<variant, mounted, browserSupported, loaded, language,
                   serverVars, engine, isProcessing, storeVars, detectVars,
                   captureVars, recognition, interim>>

Min(a, b) == IF a < b THEN a ELSE b

\* one sampler period passes; a timer that is due, a sampler callback that is
\* due and the events a stop() call queued all run before more time does
Tick ==
    /\ \A b \in Backends : probe[b] = "pending" => probeClock < ProbeBudget(b)
    /\ silenceTimerRef # 0
    /\ ~sampleDue
    /\ \A r \in DOMAIN recorders : recorders[r].state # "inactive"
    /\ probeClock' = IF \E b \in Backends : probe[b] = "pending"
                     THEN probeClock + 1 ELSE probeClock
    /\ sinceChunkStart' = Min(sinceChunkStart + 1, WarmupTicks)
    /\ silenceTimerRef' = IF silenceTimerRef > 0 THEN silenceTimerRef - 1
                          ELSE silenceTimerRef
    /\ sampleDue' = SamplerRunning
    /\ UNCHANGED <<envVars, reactVars, storeVars, detectPc, probe,
                   probeOutcome, pendingStarts, sessions, recorders, streamRef,
                   continuousRef, audioCtxRef, silenceIntervalRef,
                   mediaRecorderRef, speechDetectedRef, chunksRef,
                   recognition, interim>>

\* ------------------------------------------------------------------- api
\* no request at the API, which is configured
NoRequest == [route |-> "none"]
NoResponse == [status |-> 0]
ApiIdle == apiKey = TRUE /\ request = NoRequest /\ response = NoResponse

\* type Language = 'en' | 'no' | 'auto'
Languages == {"en", "no", "auto"}
Norwegian == <<"n", "o", "r", "w", "e", "g", "i", "a", "n">>
English == <<"e", "n", "g", "l", "i", "s", "h">>

\* a text field of a form: appended with a value, or not appended
\* (formData.get returns null)
Absent == [present |-> FALSE, chars |-> << >>]
Field(chars) == [present |-> TRUE, chars |-> chars]

\* a client that sends a hint for every language
LanguageHintAlways(lang) == Field(IF lang = "no" THEN Norwegian ELSE English)

\* if (language !== 'auto')
\*   formData.append('language', language === 'no' ? 'norwegian' : 'english')
LanguageHint(lang) ==
    IF lang # "auto" THEN Field(IF lang = "no" THEN Norwegian ELSE English)
    ELSE Absent

\* transcribeWithApi: the form it posts for a blob of `size` bytes
FormData(size, lang) ==
    [file |-> [present |-> TRUE, size |-> size], language |-> LanguageHint(lang)]

\* String.prototype.toLowerCase, for the capitals the model's texts use
LowerCase == [N |-> "n", B |-> "b", O |-> "o", E |-> "e"]
RECURSIVE toLowerCase(_)
toLowerCase(t) ==
    IF t = << >> THEN << >>
    ELSE <<IF Head(t) \in DOMAIN LowerCase THEN LowerCase[Head(t)] ELSE Head(t)>>
             \o toLowerCase(Tail(t))

\* a server that takes ISO codes only
normalizeLanguageCodesOnly(raw) ==
    IF ~raw.present THEN "null"
    ELSE IF raw.chars = <<"n", "o">> THEN "no"
    ELSE IF raw.chars = <<"e", "n">> THEN "en"
    ELSE "null"

\* switch (raw?.toLowerCase().trim()): the WhisperLanguage handed on
normalizeLanguage(raw) ==
    IF ~raw.present THEN "null"
    ELSE LET key == Trim(toLowerCase(raw.chars))
         IN IF key \in {Norwegian, <<"n", "o">>, <<"n", "b">>,
                        <<"n", "b", "-", "n", "o">>}
            THEN "no"
            ELSE IF key \in {English, <<"e", "n">>, <<"e", "n", "-", "u", "s">>,
                             <<"e", "n", "-", "g", "b">>}
            THEN "en"
            ELSE "null"

\* what a function returns or throws
Return(text) == [threw |-> FALSE, name |-> "none", message |-> "none", text |-> text]
Throw(name, message) ==
    [threw |-> TRUE, name |-> name, message |-> message, text |-> << >>]

\* a size guard that turns away the limit itself
validateAudioSizeBelowLimit(bytes) ==
    IF bytes = 0 THEN Throw("ValidationError", "Audio file is empty.")
    ELSE IF bytes >= MAX_BYTES
         THEN Throw("ValidationError", "File too large. Maximum is 25 MB.")
    ELSE Return(<< >>)

\* validate.ts
validateAudioSize(bytes) ==
    IF bytes = 0 THEN Throw("ValidationError", "Audio file is empty.")
    ELSE IF bytes > MAX_BYTES
         THEN Throw("ValidationError", "File too large. Maximum is 25 MB.")
    ELSE Return(<< >>)

\* how the request to api.openai.com may end
WhisperOutcomes ==
    [kind : {"json"}, status : {200}, text : Texts]
        \cup [kind : {"garbage"}, status : {200}, text : {<< >>}]
        \cup [kind : {"status"}, status : {401, 429, 500}, text : {<< >>}]
        \cup [kind : {"error", "timeout"}, status : {0}, text : {<< >>}]

\* whisper.ts: transcribeAudio, given whether the key is set and how the
\* request to the service ends
transcribeAudio(key, up) ==
    IF ~key THEN Throw("Error", "OPENAI_API_KEY environment variable is not set.")
    ELSE IF up.kind = "json" THEN Return(up.text)
    ELSE IF up.kind = "garbage" THEN Throw("Error", "Whisper response parse error")
    ELSE IF up.kind = "status"
         THEN Throw("Error", IF up.status = 401 THEN "Whisper API 401"
                             ELSE IF up.status = 429 THEN "Whisper API 429"
                             ELSE "Whisper API 500")
    ELSE IF up.kind = "timeout"
         THEN Throw("Error", "Whisper request timed out after 120 s")
    ELSE Throw("Error", "socket hang up")

\* isRateLimited(ip): its module is not part of the sources; any verdict
RateLimitVerdicts == BOOLEAN

GenericError == "Transcription failed. Please try again."

\* an HttpResponseInit: status and jsonBody (ok, error, text, openai), with
\* what the handler caught and the language it handed to the service
NoUpstream == [kind |-> "none", status |-> 0]
Respond(status, ok, message, text, caught, whisper) ==
    [status |-> status, ok |-> ok, error |-> message, text |-> text,
     openai |-> NoUpstream, caught |-> caught, whisper |-> whisper]

\* a catch block that answers with the message of whatever it caught
catchExposing(err, whisper) ==
    Respond(IF err.name = "ValidationError" THEN 400 ELSE 500, FALSE,
            err.message, << >>, err, whisper)

\* transcribeHandler's catch block
catch(err, whisper) ==
    IF err.name = "ValidationError"
    THEN Respond(400, FALSE, err.message, << >>, err, whisper)
    ELSE Respond(500, FALSE, GenericError, << >>, err, whisper)

\* transcribe.ts: transcribeHandler
transcribeHandler(req, limited, key, up) ==
    IF limited
    THEN Respond(429, FALSE, "Too many requests. Please wait a minute.",
                 << >>, Return(<< >>), "notCalled")
    ELSE IF ~req.form.file.present
    THEN Respond(400, FALSE, "Missing file field in multipart form.",
                 << >>, Return(<< >>), "notCalled")
    ELSE LET valid == validateAudioSize(req.form.file.size)
             lang == normalizeLanguage(req.form.language)
             result == transcribeAudio(key, up)
             sent == IF key THEN lang ELSE "notCalled"
         IN IF valid.threw THEN catch(valid, "notCalled")
            ELSE IF result.threw THEN catch(result, sent)
            ELSE Respond(200, TRUE, "none", result.text, result, sent)

\* how the httpsGet of health.ts to api.openai.com/v1/models may end
HealthOutcomes ==
    [kind : {"status"}, status : {200, 401, 429}]
        \cup [kind : {"error"}, status : {0}]

\* a health handler that looks at the key only
healthHandlerKeyOnly(key, up) ==
    IF ~key THEN Respond(503, FALSE, "Service not configured.", << >>,
                         Return(<< >>), "notCalled")
    ELSE [Respond(200, TRUE, "none", << >>, Return(<< >>), "notCalled")
             EXCEPT !.openai = up]

\* health.ts: healthHandler
healthHandler(key, up) ==
    IF ~key THEN Respond(503, FALSE, "Service not configured.", << >>,
                         Return(<< >>), "notCalled")
    ELSE LET ok == up.kind = "status" /\ up.status = 200
         IN [Respond(IF ok THEN 200 ELSE 503, ok, "none", << >>,
                     Return(<< >>), "notCalled") EXCEPT !.openai = up]

\* transcribeWithApi after the fetch: throws body.error unless res.ok
transcribeWithApi(res) ==
    IF ResOk(res.status) THEN Return(res.text) ELSE Throw("Error", res.error)

\* ------------------------------------------------------------------ spec
\* the state after the first render and its effects (lines 303-331, 698-719)
HookInit ==
    /\ variant \in Variants
    /\ mounted = TRUE
    /\ browserSupported \in BOOLEAN
    /\ engine = "null"
    /\ listening = FALSE
    /\ isProcessing = FALSE
    /\ error = "null"
    /\ interim = << >>
    /\ language = "auto"
    /\ detectPc = IF variant = "threeTier" THEN "awaitLytt" ELSE "awaitCloud"
    /\ probe = [b \in Backends |->
                  IF (b = "lytt") = (variant = "threeTier")
                  THEN "pending" ELSE "unissued"]
    /\ probeOutcome = [b \in Backends |-> [kind |-> "none", status |-> 0]]
    /\ probeClock = 0
    /\ pendingStarts = << >>
    /\ sessions = << >>
    /\ recorders = << >>
    /\ streamRef = 0
    /\ continuousRef = FALSE
    /\ audioCtxRef = 0
    /\ silenceIntervalRef = 0
    /\ mediaRecorderRef = 0
    /\ silenceTimerRef = -1
    /\ sampleDue = FALSE
    /\ sinceChunkStart = WarmupTicks
    /\ speechDetectedRef = FALSE
    /\ chunksRef = 0
    /\ recognition = IF browserSupported THEN "idle" ELSE "none"
    /\ replaced = NoneReplaced

\* a first visit: nothing is stored under STORAGE_KEY
Init ==
    /\ HookInit
    /\ ApiIdle
    /\ persisted = [kind |-> "missing", chars |-> << >>]
    /\ loaded = loadTranscripts(persisted)
    /\ transcripts = ReviveAll(loaded.body)
    /\ idCounter = 0

\* both revisions, with a recognizer that delivers no results
Next ==
    \/ \E o \in FetchOutcomes : LyttProbeSettles(o)
    \/ \E o \in FetchOutcomes : CloudProbeSettles(o)
    \/ ToggleSegmented
    \/ ToggleThreeTier
    \/ \E i \in 1..MaxSessions : StartCloudEngineGranted(i)
    \/ \E i \in 1..MaxSessions : StartWhisperEngineGranted(i)
    \/ \E i \in 1..MaxSessions : StartDenied(i)
    \/ \E a \in Amplitudes : Sample(a)
    \/ SilenceTimerFires
    \/ \E r \in 1..MaxRecorders : SegmentStopEvent(r)
    \/ \E r \in 1..MaxRecorders : RecordingStopEvent(r)
    \/ \E r \in 1..MaxRecorders, res \in CallResults : TranscribeSettles(r, res)
    \/ RecognitionEnd
    \/ RecognitionError
    \/ Tick

Spec == Init /\ [][Next]_vars

\* time passes, and a fetch that is still pending at its AbortSignal's
\* timeout is aborted; nothing is assumed about the backends, the user, the
\* microphone or the transcription service
Timeout == [kind |-> "abort", status |-> 0]
FairSpec ==
    /\ Spec
    /\ WF_vars(Tick)
    /\ WF_vars(LyttProbeSettles(Timeout))
    /\ WF_vars(CloudProbeSettles(Timeout))


\* ------------------------------------- the segmented revision and unmount
\* the segmented revision in a component that may unmount at any moment;
\* once it has, nobody can press its button, and what was pending goes on
UnmountInit == Init /\ variant = "segmented"

\* toggle is the click handler of a button of the mounted component
ToggleWhileMounted == mounted /\ ToggleSegmented

UnmountNext ==
    \/ \E o \in FetchOutcomes : CloudProbeSettles(o)
    \/ ToggleWhileMounted
    \/ Unmount
    \/ \E i \in 1..MaxSessions : StartCloudEngineGranted(i)
    \/ \E i \in 1..MaxSessions : StartDenied(i)
    \/ \E a \in Amplitudes : Sample(a)
    \/ SilenceTimerFires
    \/ \E r \in 1..MaxRecorders : SegmentStopEvent(r)
    \/ \E r \in 1..MaxRecorders, res \in CallResults : TranscribeSettles(r, res)
    \/ RecognitionEnd
    \/ RecognitionError
    \/ Tick

UnmountSpec == UnmountInit /\ [][UnmountNext]_vars

\* ------------------------------------------- the three-tier revision alone
\* every handler of the latest revision, the recognizer's result events
\* among them
ThreeTierInit == Init /\ variant = "threeTier"

ThreeTierNext ==
    \/ \E o \in FetchOutcomes : LyttProbeSettles(o)
    \/ \E o \in FetchOutcomes : CloudProbeSettles(o)
    \/ ToggleThreeTier
    \/ \E i \in 1..MaxSessions : StartWhisperEngineGranted(i)
    \/ \E i \in 1..MaxSessions : StartDenied(i)
    \/ \E r \in 1..MaxRecorders : RecordingStopEvent(r)
    \/ \E r \in 1..MaxRecorders, res \in CallResults : TranscribeSettles(r, res)
    \/ \E ev \in ResultEvents : RecognitionResult(ev)
    \/ RecognitionEnd
    \/ RecognitionError
    \/ Tick

ThreeTierSpec == ThreeTierInit /\ [][ThreeTierNext]_vars


\* ------------------------------------- the device recognizer and language
\* the latest revision with every call the hook offers on the fallback path:
\* toggle and setLanguage at any time, and the events of every recognizer
\* instance that was started
RecognizerNext ==
    \/ \E o \in FetchOutcomes : LyttProbeSettles(o)
    \/ \E o \in FetchOutcomes : CloudProbeSettles(o)
    \/ ToggleThreeTier
    \/ \E l \in Languages : setLanguage(l)
    \/ \E i \in 1..MaxSessions : StartDenied(i)
    \/ \E ev \in ResultEvents : RecognitionResult(ev)
    \/ RecognitionEnd
    \/ RecognitionError
    \/ \E ev \in ResultEvents : ReplacedResult(ev)
    \/ ReplacedEnd
    \/ ReplacedError
    \/ Tick

RecognizerSpec == ThreeTierInit /\ [][RecognizerNext]_vars


\* ------------------------------------------------------- the store alone
\* the operations on the transcript list, from any content of the slot a
\* visit may find, with the rest of the hook at rest
hookVars == <<envVars, reactVars, detectVars, captureVars, recognition, interim>>

\* texts a result may carry, among them characters JSON escapes
StoreTexts == {<< >>, <<" ">>, <<"a">>, <<" ", "\"", "\\", " ">>}

\* lists an earlier visit may have saved
StoredLists ==
    LET first == [id |-> 1, text |-> <<"a">>, source |-> "cloud"]
        second == [id |-> 2, text |-> <<"\\", "a", "\"">>, source |-> "browser"]
    IN {<< >>, <<first>>, <<second, first>>}

\* what the slot may hold when the page loads: nothing, text that is not
\* JSON, or a saved list
StoredSlots ==
    {[kind |-> "missing", chars |-> << >>],
     [kind |-> "string", chars |-> <<"x">>],
     [kind |-> "string", chars |-> <<"[", "{">>]}
        \cup {JSONstringify(l) : l \in StoredLists}

\* a result with text arrives (lines 795-809, 738-753)
Insert(text, source) ==
    /\ idCounter < MaxRecords
    /\ InsertIfText(text, source)
    /\ UNCHANGED hookVars

\* a removal that does not write the slot
deleteTranscriptNoSave(id) ==
    /\ transcripts' = SelectSeq(transcripts, LAMBDA t : t.id # id)
    /\ UNCHANGED <<persisted, idCounter, hookVars>>

\* setTranscripts(prev => { updated = prev.filter(t => t.id !== id);
\*                          saveTranscripts(updated); return updated })
deleteTranscript(id) ==
    LET updated == SelectSeq(transcripts, LAMBDA t : t.id # id)
    IN /\ transcripts' = updated
       /\ persisted' = JSONstringify(updated)
       /\ UNCHANGED <<idCounter, hookVars>>

\* setTranscripts([]); saveTranscripts([])
clearAll ==
    /\ transcripts' = << >>
    /\ persisted' = JSONstringify(<< >>)
    /\ UNCHANGED <<idCounter, hookVars>>

\* the page is loaded again: useState(loadTranscripts) on the new mount
Reload ==
    /\ loaded' = loadTranscripts(persisted)
    /\ transcripts' = ReviveAll(loaded'.body)
    /\ UNCHANGED <<persisted, idCounter, variant, mounted, replaced, browserSupported, language,
                   serverVars, reactVars, detectVars, captureVars,
                   recognition, interim>>

StoreInit ==
    /\ HookInit
    /\ ApiIdle
    /\ persisted \in StoredSlots
    /\ loaded = loadTranscripts(persisted)
    /\ transcripts = ReviveAll(loaded.body)
    /\ idCounter = Len(transcripts)

StoreNext ==
    \/ \E text \in StoreTexts, source \in Sources : Insert(text, source)
    \/ \E id \in 1..MaxRecords : deleteTranscript(id)
    \/ clearAll
    \/ Reload

StoreSpec == StoreInit /\ [][StoreNext]_vars


\* ------------------------------------------------------- the load alone
\* loadTranscripts() called on whatever the slot holds: any text of up to
\* MaxChars characters over SlotAlphabet, null, or what a visit saved
SlotAlphabet == {"[", "]", "{", "}", "\"", "1", ","}

TextsUpTo(n) == UNION {[1..k -> SlotAlphabet] : k \in 0..n}

SlotContents ==
    StoredSlots
        \cup {[kind |-> "string", chars |-> t] :
                  t \in TextsUpTo(MaxChars) \cup {<<"n", "u", "l", "l">>}}

\* the hook has not mounted yet
NotCalled == [type |-> "none", body |-> << >>]

\* useState(loadTranscripts): the call itself
Mount ==
    /\ loaded.type = "none"
    /\ loaded' = loadTranscripts(persisted)
    /\ UNCHANGED <<variant, mounted, replaced, browserSupported, language, serverVars, reactVars,
                   storeVars, detectVars, captureVars, recognition, interim>>

LoadInit ==
    /\ HookInit
    /\ ApiIdle
    /\ persisted \in SlotContents
    /\ loaded = NotCalled
    /\ transcripts = << >>
    /\ idCounter = 0

LoadNext == Mount

LoadSpec == LoadInit /\ [][LoadNext]_vars


\* -------------------------------------------------- the API and its client
\* requests to the two functions of the API, from the hook and from other
\* clients, each handled and its response taken before the next is sent
BlobSizes == {0, NOISE_FLOOR_BYTES + 1, MAX_BYTES, MAX_BYTES + 1}

\* forms other clients may post
ForeignForms ==
    [file : {[present |-> FALSE, size |-> 0], [present |-> TRUE, size |-> 1]},
     language : {Field(<<"N", "B", "-", "N", "O">>), Field(<<" ", "e", "n", " ">>),
                 Field(<<"f", "r">>)}]

Request(route, client, selected, form) ==
    [route |-> route, client |-> client, selected |-> selected, form |-> form]

Idle == request.route = "none"

\* the language buttons are disabled while listening
SetLanguage(l) ==
    /\ ~listening
    /\ setLanguage(l)

Sends(req) ==
    /\ Idle
    /\ request' = req
    /\ UNCHANGED <<variant, mounted, replaced, browserSupported, loaded, language, apiKey, response,
                   engine, listening, storeVars, detectVars, captureVars,
                   recognition, interim>>

\* checkCloudApi: fetch('/api/health')
GetHealth ==
    /\ Sends(Request("health", "hook", language, FormData(0, "auto")))
    /\ UNCHANGED <<isProcessing, error>>

\* recorder.onstop up to the fetch of transcribeWithApi, for a blob of
\* `size` bytes (lines 786-795, 675-689)
PostTranscribe(size) ==
    /\ idCounter < MaxRecords
    /\ isProcessing' = TRUE
    /\ error' = "null"
    /\ Sends(Request("transcribe", "hook", language, FormData(size, language)))

\* another client posts to /api/transcribe
PostForeign(form) ==
    /\ Sends(Request("transcribe", "other", "auto", form))
    /\ UNCHANGED <<isProcessing, error>>

Serves(res) ==
    /\ response.status = 0
    /\ response' = res
    /\ UNCHANGED <<variant, mounted, replaced, browserSupported, loaded, language, apiKey, request,
                   reactVars, storeVars, detectVars, captureVars, recognition,
                   interim>>

ServeHealth(up) ==
    /\ request.route = "health"
    /\ Serves(healthHandler(apiKey, up))

ServeTranscribe(limited, up) ==
    /\ request.route = "transcribe"
    /\ Serves(transcribeHandler(request, limited, apiKey, up))

\* the client takes the response; the hook's recorder.onstop goes on after
\* its await: insertion, or setError(err.message)
Settles ==
    /\ response.status # 0
    /\ request' = NoRequest
    /\ response' = NoResponse
    /\ IF request.route = "transcribe" /\ request.client = "hook"
       THEN LET result == transcribeWithApi(response)
            IN /\ IF result.threw
                  THEN error' = result.message /\ UNCHANGED storeVars
                  ELSE InsertIfText(result.text, "cloud") /\ UNCHANGED error
               /\ isProcessing' = FALSE
       ELSE UNCHANGED <<error, storeVars, isProcessing>>
    /\ UNCHANGED <<variant, mounted, replaced, browserSupported, loaded, language, apiKey, engine,
                   listening, detectVars, captureVars, recognition, interim>>

ApiInit ==
    /\ HookInit
    /\ apiKey \in BOOLEAN
    /\ request = NoRequest
    /\ response = NoResponse
    /\ persisted = [kind |-> "missing", chars |-> << >>]
    /\ loaded = loadTranscripts(persisted)
    /\ transcripts = ReviveAll(loaded.body)
    /\ idCounter = 0

ApiNext ==
    \/ \E l \in Languages : SetLanguage(l)
    \/ GetHealth
    \/ \E size \in BlobSizes : PostTranscribe(size)
    \/ \E form \in ForeignForms : PostForeign(form)
    \/ \E up \in HealthOutcomes : ServeHealth(up)
    \/ \E limited \in RateLimitVerdicts, up \in WhisperOutcomes :
           ServeTranscribe(limited, up)
    \/ Settles

ApiSpec == ApiInit /\ [][ApiNext]_vars


\* ------------------------------------------------------------ properties
Reachable(b) == probe[b] = "reachable"
Selected == detectPc = "done"

\* C1: the selection respects priority: a reachable lytt bridge is selected
\* whatever else is available; with the bridge not reachable a reachable
\* cloud function is selected; a tier is never selected while a higher one
\* reported reachable.
C1_PriorityRespected ==
    /\ engine # "null" => Selected
    /\ Selected =>
        /\ Reachable("lytt") => engine = "lytt"
        /\ ~Reachable("lytt") /\ Reachable("cloud") => engine = "cloud"
        /\ engine = "cloud" => ~Reachable("lytt")
        /\ engine = "browser" => ~Reachable("lytt") /\ ~Reachable("cloud")

C1_Witness ==
    /\ variant = "threeTier"
    /\ engine = "cloud"
    /\ probe["lytt"] = "unreachable"
    /\ probe["cloud"] = "reachable"

\* C2 as amended: when no network probe reports reachable the engine becomes
\* 'browser' whether or not the device has a recognition facility, and the
\* hook reports that it can transcribe exactly when the facility is present.
C2_FallbackAlwaysSelected ==
    Selected /\ ~Reachable("lytt") /\ ~Reachable("cloud")
        => engine = "browser" /\ (canTranscribe <=> browserSupported)

C2_Witness ==
    /\ Selected
    /\ probe["lytt"] = "unreachable"
    /\ probe["cloud"] = "unreachable"
    /\ ~browserSupported
    /\ engine = "browser"
    /\ ~canTranscribe

\* C2 as stated: with no network probe reachable the selection is the
\* fallback only if the facility is present.
C2_FallbackOnlyIfPresent ==
    Selected /\ ~Reachable("lytt") /\ ~Reachable("cloud")
        => (engine = "browser" <=> browserSupported)

\* C3: the cloud probe is issued only after the lytt probe has ended as
\* unreachable, and never when the lytt bridge was reachable.
C3_ProbesSequential ==
    variant = "threeTier" =>
        /\ probe["cloud"] # "unissued" => probe["lytt"] = "unreachable"
        /\ probe["lytt"] = "reachable" => probe["cloud"] = "unissued"

C3_Witness ==
    /\ variant = "threeTier"
    /\ probe["lytt"] = "unreachable"
    /\ probe["cloud"] = "pending"
    /\ probeClock > 0

\* C4: once the engine has left null it never changes again, and no probe
\* is issued or settles after that.
C4_SelectionTerminal ==
    [][engine # "null" => engine' = engine /\ probe' = probe]_vars

C4_Witness ==
    /\ engine = "cloud"
    /\ transcripts # << >>
    /\ \E r \in DOMAIN recorders : recorders[r].state = "inflight"

\* C5: a probe never throws to detectEngine, and it reports reachable
\* exactly when its fetch ended with a response of a success status.
C5_ProbeNeverThrows ==
    /\ detectPc # "rejected"
    /\ \A b \in Backends :
        /\ probe[b] # "threw"
        /\ probe[b] \in {"reachable", "unreachable"} =>
              (Reachable(b) <=> /\ probeOutcome[b].kind = "response"
                                /\ ResOk(probeOutcome[b].status))

C5_Witness ==
    /\ probeOutcome["lytt"].kind = "networkError"
    /\ probe["lytt"] = "unreachable"
    /\ probeOutcome["cloud"].kind = "response"
    /\ ~ResOk(probeOutcome["cloud"].status)
    /\ probe["cloud"] = "unreachable"

\* C6: the engine eventually becomes determined, also when no backend ever
\* answers: each probe is aborted at its timeout.
C6_SelectionTerminates == <>(engine # "null")

C6_Witness ==
    /\ engine # "null"
    /\ probeOutcome["lytt"].kind = "abort"
    /\ probeOutcome["cloud"].kind = "abort"

\* C7 as stated: at most one acquired microphone stream with a running
\* sampler (segmented) or an unreleased stream (threeTier) exists at a time.
Held(k) ==
    /\ sessions[k].released = 0
    /\ variant = "segmented" => sessions[k].interval = "running"

C7_OneCaptureSession ==
    Cardinality({k \in DOMAIN sessions : Held(k)}) <= 1

\* C8 as stated: while a closed segment's transcription call is in flight
\* and the session is still capturing, the session's next recorder is
\* recording.
C8_RotationNotBlocked ==
    \A r \in DOMAIN recorders :
        /\ variant = "segmented"
        /\ recorders[r].state = "inflight"
        /\ continuousRef
        /\ streamRef = recorders[r].session
        => \E q \in DOMAIN recorders :
              /\ recorders[q].state = "recording"
              /\ recorders[q].session = recorders[r].session

Handled(r) ==
    /\ variant = "segmented"
    /\ recorders[r].state = "inactive"
    /\ recorders'[r].state # "inactive"

OneSession == Len(sessions) = 1 /\ pendingStarts = << >>

\* C11 as stated: a segment in which the amplitude reached the speech
\* threshold and which the silence timer closed is dispatched (here for a
\* segment above the noise floor, in a run with a single session).
C11_SpeechThenSilenceDispatched ==
    [][\A r \in DOMAIN recorders :
          /\ Handled(r)
          /\ OneSession
          /\ recorders[r].closedBy = "timer"
          /\ recorders[r].heard
          /\ BlobSize(r) > NOISE_FLOOR_BYTES
          => recorders'[r].state = "inflight"]_vars

\* the step is a callback of the sampler (no toggle clears sampleDue
\* without changing listening or pendingStarts)
SampleStep ==
    /\ sampleDue /\ ~sampleDue'
    /\ UNCHANGED <<listening, pendingStarts, continuousRef>>

\* C12: the closure timer is armed only by a sample taken when the warm-up
\* window of the latest segment (hence of every open segment) has passed;
\* samples inside the window leave the timer as it is.
C12_WarmupNeverArms ==
    [][/\ silenceTimerRef = -1 /\ silenceTimerRef' # -1
            => sinceChunkStart >= WarmupTicks /\ continuousRef
       /\ SampleStep /\ sinceChunkStart < WarmupTicks
            => silenceTimerRef' = silenceTimerRef]_vars

C12_Witness ==
    /\ variant = "segmented"
    /\ IsRecording(mediaRecorderRef)
    /\ continuousRef
    /\ sinceChunkStart = WarmupTicks - 1
    /\ ~sampleDue
    /\ silenceTimerRef = -1
    /\ ~recorders[mediaRecorderRef].heard

\* C13 as stated: a reading above the silence threshold while the closure
\* timer is pending cancels the timer (here a reading that reaches the
\* speech threshold, in a run with a single session).
C13_LoudReadingCancels ==
    [][/\ OneSession
       /\ silenceTimerRef # -1
       /\ \E r \in DOMAIN recorders :
             ~recorders[r].heard /\ recorders'[r].heard
       => silenceTimerRef' = -1]_vars

\* C14: the final segment, closed by toggle-off, passes the filter of the
\* stop handler like any other: it is dispatched exactly when the speech
\* flag is set and its size is above the floor, and then a reading at or
\* above the speech threshold fell in it.
C14_StopUsesSameFilter ==
    [][\A r \in DOMAIN recorders :
          Handled(r) /\ recorders[r].closedBy = "toggle" =>
              /\ recorders'[r].state = "inflight"
                    <=> ShouldDispatch(BlobSize(r), speechDetectedRef)
              /\ recorders'[r].state = "inflight" => recorders[r].heard]_vars

C14_Witness ==
    \E r \in DOMAIN recorders :
        /\ variant = "segmented"
        /\ ~listening
        /\ recorders[r].state = "inactive"
        /\ recorders[r].closedBy = "toggle"
        /\ speechDetectedRef
        /\ BlobSize(r) <= NOISE_FLOOR_BYTES

\* session k was stopped by toggle-off and none of its recorders is open
Stopped(k) ==
    /\ sessions[k].interval = "cleared"
    /\ \A r \in DOMAIN recorders :
          recorders[r].session = k => recorders[r].state = "done"

\* C15 as stated: a stopped session's stream is released exactly once: never
\* twice, and once when the session's last stop handler has run (here in a
\* run in which a transcription call has completed with a record).
C15_StopReleasesOnce ==
    \A k \in DOMAIN sessions :
        /\ sessions[k].released <= 1
        /\ variant = "segmented" /\ Stopped(k) /\ transcripts # << >>
              => sessions[k].released = 1

\* C16 as stated: the release of the stream follows the stop and does not
\* wait on a transcription call: while the call of the segment that
\* toggle-off closed is in flight the stream has been released (here in a
\* run with a single session).
C16_ReleaseDoesNotWait ==
    \A r \in DOMAIN recorders :
        /\ variant = "segmented"
        /\ OneSession
        /\ recorders[r].state = "inflight"
        /\ recorders[r].closedBy = "toggle"
        => sessions[recorders[r].session].released = 1

\* the session is stopped: toggle-off has run and no new start followed
SessionStopped == ~listening /\ (variant = "segmented" => ~continuousRef)

\* a call that returns text which is not empty after trimming
TextResult == [ok |-> TRUE, text |-> <<" ", "a">>]

\* C17: a call in flight after toggle-off is not cancelled: its completion
\* with non-empty text is still possible and puts its record at the head of
\* the store and of the persisted slot.
C17_InFlightCompletes ==
    \A r \in DOMAIN recorders :
        recorders[r].state = "inflight" /\ SessionStopped =>
            ENABLED (/\ TranscribeSettles(r, TextResult)
                     /\ Len(transcripts') = Len(transcripts) + 1
                     /\ Head(transcripts').source = recorders[r].source
                     /\ persisted' = JSONstringify(transcripts'))

C17_Witness ==
    \E r \in DOMAIN recorders :
        /\ variant = "segmented"
        /\ SessionStopped
        /\ recorders[r].state = "inflight"
        /\ recorders[r].closedBy = "timer"
        /\ sessions[recorders[r].session].released = 1

\* a pending start ends in this step without a stream
Denied ==
    /\ Len(pendingStarts') < Len(pendingStarts)
    /\ Len(sessions') = Len(sessions)

\* C18: when the microphone cannot be acquired the start leaves listening,
\* the continuous flag and every capture resource as they were (no stream,
\* context, interval, timer or recorder is created) and sets the error.
C18_AcquisitionFailureAtomic ==
    [][Denied =>
          /\ error' = MicError
          /\ UNCHANGED <<listening, continuousRef, sessions, recorders,
                         streamRef, audioCtxRef, silenceIntervalRef,
                         silenceTimerRef, mediaRecorderRef, isProcessing>>]_vars

C18_Witness ==
    /\ engine \in NetworkTiers
    /\ error = MicError
    /\ ~listening
    /\ ~continuousRef
    /\ pendingStarts = << >>
    /\ sessions = << >>
    /\ recorders = << >>

\* a call that fails
FailResult == [ok |-> FALSE, text |-> << >>]

\* the session is capturing and the bound leaves room for its next recorder
Capturing ==
    /\ variant = "segmented"
    /\ listening /\ continuousRef /\ streamRef # 0
    /\ Len(recorders) < MaxRecorders

\* C19: when a transcription call fails while the session is capturing, the
\* error is set, the store is left alone, listening, the stream and the
\* sampler stay as they are, and a new recorder starts recording.
C19_FailedCallRecoverable ==
    \A r \in DOMAIN recorders :
        recorders[r].state = "inflight" /\ Capturing =>
            ENABLED (/\ TranscribeSettles(r, FailResult)
                     /\ error' = TranscriptionError
                     /\ ~isProcessing'
                     /\ UNCHANGED <<storeVars, listening, sessions, streamRef,
                                    silenceIntervalRef, continuousRef>>
                     /\ mediaRecorderRef' = Len(recorders) + 1
                     /\ recorders'[mediaRecorderRef'].state = "recording"
                     /\ recorders'[mediaRecorderRef'].session = streamRef)

C19_Witness ==
    /\ variant = "segmented"
    /\ error = TranscriptionError
    /\ transcripts = << >>
    /\ listening /\ continuousRef
    /\ Len(recorders) = 2
    /\ recorders[1].state = "done"
    /\ mediaRecorderRef = 2
    /\ recorders[2].state = "recording"
    /\ sessions[streamRef].interval = "running"
    /\ sessions[streamRef].released = 0


\* C20: after any sequence of insertions, removals and clears, from any
\* content of the slot, what loadTranscripts reads back from the slot is the
\* in-memory list: the same records in the same newest-first order, so a
\* reload reconstructs it
C20_PersistedEqualsMemory == InitialTranscripts(persisted) = transcripts

\* a list that went through insertions and a removal, headed by a record
\* whose text JSON escapes, and written to the slot
C20_Witness ==
    /\ Len(transcripts) = 2
    /\ transcripts[1].id = MaxRecords /\ transcripts[2].id = 1
    /\ transcripts[1].text = <<"\"", "\\">>
    /\ persisted = JSONstringify(transcripts)


Ids(items) == {items[i].id : i \in DOMAIN items}

\* C21: each mutation of the store has exactly its stated effect. An
\* insertion puts the new record, with a fresh id, at the head and leaves the
\* records that were there behind it, unchanged and in their order; removing
\* an id that is absent changes nothing, removing one that is present takes
\* out that record only and keeps the others in their order; clearing leaves
\* the store empty.
C21_MutationsExact ==
    /\ \A text \in StoreTexts, source \in Sources :
           idCounter < MaxRecords /\ Trim(text) # << >> =>
               ENABLED (/\ Insert(text, source)
                        /\ Tail(transcripts') = transcripts
                        /\ Head(transcripts').text = Trim(text)
                        /\ Head(transcripts').source = source
                        /\ Head(transcripts').id \notin Ids(transcripts))
    /\ \A id \in 1..MaxRecords :
           ENABLED (/\ deleteTranscript(id)
                    /\ id \notin Ids(transcripts) => transcripts' = transcripts
                    /\ \A i \in DOMAIN transcripts :
                           transcripts[i].id = id =>
                               transcripts' = RemoveAt(transcripts, i))
    /\ ENABLED (clearAll /\ transcripts' = << >>)

\* a store that saw three insertions and the removal of the oldest record
C21_Witness ==
    /\ Len(transcripts) = 2
    /\ transcripts[1].id = MaxRecords /\ transcripts[2].id = MaxRecords - 1
    /\ transcripts[1].source = "lytt" /\ transcripts[2].source = "browser"
    /\ idCounter = MaxRecords


\* C22 as stated: whatever the slot holds that is not a serialised list of
\* transcripts (nothing, text that is not JSON, JSON that is not a list, a
\* list of other things), loadTranscripts returns the empty list
C22_LoadDegradesToEmpty ==
    loaded.type # "none" =>
        \/ persisted.kind = "string" /\ ~JSONparse(persisted.chars).threw
               /\ IsTranscriptList(JSONparse(persisted.chars).value)
        \/ loaded.type = "array" /\ Len(loaded.body) = 0


Blank(text) == Trim(text) = << >>

\* C23: every record in the store, whether the dispatcher or the recognizer
\* put it there, has a text that is not empty and carries no white space
\* at its ends; a transcription that returns an empty or white-space-only
\* text, and a result event whose final text is empty or white space only,
\* leave the store and the slot as they were
C23_NoBlankRecord ==
    /\ \A i \in DOMAIN transcripts :
           ~Blank(transcripts[i].text)
               /\ Trim(transcripts[i].text) = transcripts[i].text
    /\ \A r \in DOMAIN recorders, text \in Texts :
           recorders[r].state = "inflight" /\ Blank(text) =>
               ENABLED (/\ TranscribeSettles(r, [ok |-> TRUE, text |-> text])
                        /\ UNCHANGED storeVars)
    /\ \A ev \in ResultEvents :
           recognition = "running" /\ Blank(ev.finalText) =>
               ENABLED (RecognitionResult(ev) /\ UNCHANGED storeVars)

\* the store holds a record of the recognizer and one of the dispatcher
C23_Witness ==
    /\ Len(transcripts) = 2
    /\ transcripts[1].source = "browser"
    /\ transcripts[2].source \in NetworkTiers
    /\ recognition = "running"
    /\ \E r \in DOMAIN recorders : recorders[r].state = "inflight"


RecognizerStarts == recognition = "idle" /\ recognition' = "running"
BrowserRecordInserted ==
    Len(transcripts') > Len(transcripts) /\ Head(transcripts').source = "browser"

\* C24 as stated: the recognizer is started only while the selection is
\* 'browser', never while it is undetermined or a network tier, and no
\* record of source 'browser' is inserted while the selection is a network
\* tier
C24_FallbackOnlyWhenSelected ==
    [][/\ RecognizerStarts => engine = "browser"
       /\ BrowserRecordInserted => engine \notin NetworkTiers]_vars


Range(t) == {t[i] : i \in DOMAIN t}

\* C25: interim text is never stored. A result event without final text
\* (after trimming) replaces the interim text on display and leaves store
\* and slot alone; one with final text inserts exactly one record, of source
\* 'browser', holding the trimmed final text, writes the new list to the
\* slot and clears the interim text; no record holds a character that only
\* interim results carry
C25_InterimNeverPersisted ==
    /\ \A i \in DOMAIN transcripts : "i" \notin Range(transcripts[i].text)
    /\ \A ev \in ResultEvents :
           recognition = "running" /\ idCounter < MaxRecords =>
               ENABLED (/\ RecognitionResult(ev)
                        /\ IF Blank(ev.finalText)
                           THEN /\ interim' = ev.interimText
                                /\ UNCHANGED storeVars
                           ELSE /\ interim' = << >>
                                /\ Tail(transcripts') = transcripts
                                /\ Head(transcripts').text = Trim(ev.finalText)
                                /\ Head(transcripts').source = "browser"
                                /\ persisted' = JSONstringify(transcripts'))

\* interim text is on display after a final result was stored
C25_Witness ==
    /\ engine = "browser" /\ recognition = "running" /\ listening
    /\ interim = <<"i">>
    /\ Len(transcripts) = 1 /\ transcripts[1].source = "browser"


\* the recognizer leaves the running state and no toggle asked it to
RecognizerFails ==
    recognition = "running" /\ recognition' = "stopping" /\ ~ToggleThreeTier

\* C26: a recognition error sets listening to false and sets the error
\* text shown to the user, and the hook never starts the recognizer by
\* itself: every start of the recognizer, after an error as at any other
\* time, is a toggle call
C26_ErrorStopsNoRestart ==
    [][/\ RecognizerFails =>
              ~listening' /\ error' = RecognitionErrorMessage
       /\ RecognizerStarts => ToggleThreeTier]_vars

\* after an error and the end event that follows it: idle, not listening,
\* the error on display
C26_Witness ==
    /\ engine = "browser" /\ recognition = "idle"
    /\ ~listening /\ error = RecognitionErrorMessage


Completes(r) == recorders[r].state = "inflight" /\ recorders'[r].state # "inflight"

\* C27: records enter the store in the order their calls complete. The
\* step in which a call completes either leaves the store alone (the call
\* failed or returned no text) or puts one record of that call's source, with
\* an id newer than every id in the store, at the head, in front of the
\* whole list as it was, whichever calls are still in flight and whichever
\* segment was captured first
C27_CompletionOrder ==
    [][\A r \in DOMAIN recorders :
          Completes(r) =>
              \/ UNCHANGED storeVars
              \/ /\ Tail(transcripts') = transcripts
                 /\ Head(transcripts').source = recorders[r].source
                 /\ \A id \in Ids(transcripts) : Head(transcripts').id > id
                 /\ persisted' = JSONstringify(transcripts')]_vars

\* the call of the segment captured second has completed and stored its
\* record while the call of the segment captured first is still in flight
C27_Witness ==
    /\ Len(recorders) = 2
    /\ recorders[1].state = "inflight" /\ recorders[2].state = "done"
    /\ Len(transcripts) = 1

\* the response of the health endpoint, once it is there
HealthResponse == request.route = "health" /\ response.status # 0

Visible(res) == <<res.status, res.ok, res.error, res.text>>

\* the handler caught something other than a ValidationError
Internal(res) == res.caught.threw /\ res.caught.name # "ValidationError"

InternalFailure ==
    request.route = "transcribe" /\ response.status # 0 /\ Internal(response)

\* C29: whenever the transcribe handler fails internally (missing key,
\* upstream status, unparsable answer, socket error, timeout) it answers
\* status 500 with the fixed retry message, any other internal failure of the
\* same request would have got the same visible answer, and the hook then
\* sets exactly that message as its error
C29_InternalFailuresLookAlike ==
    InternalFailure =>
        /\ response.status = 500
        /\ response.error = GenericError
        /\ response.error # response.caught.message
        /\ \A key \in BOOLEAN, up \in WhisperOutcomes :
               LET other == transcribeHandler(request, FALSE, key, up)
               IN Internal(other) => Visible(other) = Visible(response)
        /\ request.client = "hook" => ENABLED (Settles /\ error' = GenericError)

C29_Witness ==
    /\ InternalFailure /\ request.client = "hook"
    /\ response.caught.message = "Whisper API 429"
    /\ response.status = 500
\* a request the hook posted to the transcribe endpoint
HookRequest == request.route = "transcribe" /\ request.client = "hook"

\* the handler handed the audio to the transcription service
ReachedService == response.status # 0 /\ response.whisper # "notCalled"

\* C30: the language selected when the hook posts a recording determines the
\* hint: for 'no' the form carries 'norwegian' and the service is given 'no',
\* for 'en' it carries 'english' and the service is given 'en', for 'auto'
\* the form carries no language field and the service is given null
C30_HintFollowsLanguage ==
    HookRequest =>
        /\ request.form.language =
               IF request.selected = "no" THEN Field(Norwegian)
               ELSE IF request.selected = "en" THEN Field(English)
               ELSE Absent
        /\ ReachedService =>
               response.whisper =
                   IF request.selected = "auto" THEN "null" ELSE request.selected

C30_Witness ==
    /\ HookRequest /\ request.selected = "no"
    /\ request.form.language = Field(Norwegian)
    /\ ReachedService /\ response.whisper = "no" /\ response.status = 200
\* recorder r is stopped in this step: its segment is closed
Closes(r) == recorders[r].state = "recording" /\ recorders'[r].state = "inactive"

\* C31 as stated: a segment in which some reading, from its start to its
\* closure, was at or above the speech threshold is marked as containing
\* speech when it is closed (in a run with a single session).
C31_SpeechMarkedAtClosure ==
    [][\A r \in DOMAIN recorders :
          Closes(r) /\ OneSession /\ recorders[r].heard => speechDetectedRef']_vars
\* the handler's answer to a request with a file part that the rate limiter
\* let through
Answered ==
    /\ request.route = "transcribe" /\ request.form.file.present
    /\ response.status \notin {0, 429}

Open(r) == recorders[r].state # "done"

\* C33 as stated: once the component has unmounted, no silence timer and no
\* sampling interval is pending, no recorder records (no segment is started),
\* and when every stop handler has run to its end every stream that was
\* acquired has been released.
C33_UnmountStopsEverything ==
    ~mounted =>
        /\ silenceTimerRef = -1
        /\ \A k \in DOMAIN sessions : sessions[k].interval # "running"
        /\ \A r \in DOMAIN recorders : recorders[r].state # "recording"
        /\ (\A r \in DOMAIN recorders : ~Open(r)) =>
               \A k \in DOMAIN sessions : sessions[k].released >= 1
\* the closure timer's callback stops recorder r in this step
ClosedByTimer(r) == Closes(r) /\ recorders'[r].closedBy = "timer"

\* C34 as stated: a segment the silence timer closes has lasted at least
\* WARMUP_MS + SILENCE_DELAY_MS.  The segment clock of the model saturates
\* at the warm-up, so the formula asks for the first part of that bound
\* only: the segment is past its warm-up when the timer closes it (a timer
\* armed within the segment cannot be armed earlier than that), in a run
\* with a single session.
C34_TimerClosesAfterWarmup ==
    [][\A r \in DOMAIN recorders :
          ClosedByTimer(r) /\ OneSession => sinceChunkStart >= WarmupTicks]_vars
Recording(r) == recorders[r].state = "recording"

\* C35 as stated, for the recorders of one stream (two recorders on two
\* streams are the double start of C7): at most one recorder is recording
\* at any time; a stop handler that resumes after a new session has started
\* does not start another recorder on that session's stream.
C35_OneRecorderPerStream ==
    \A r1, r2 \in DOMAIN recorders :
        Recording(r1) /\ Recording(r2)
            /\ recorders[r1].session = recorders[r2].session => r1 = r2
InFlight(r) == recorders[r].state = "inflight"

\* C36 as stated: isProcessing is true whenever at least one transcription
\* call is in flight, also when two calls overlap and one of them completes.
C36_ProcessingWhileInFlight ==
    (\E r \in DOMAIN recorders : InFlight(r)) => isProcessing
\* the user has toggled off, no start is pending, and no stop handler is
\* pending or awaiting its call
Quiet ==
    /\ ~listening
    /\ pendingStarts = << >>
    /\ \A r \in DOMAIN recorders : recorders[r].state \notin {"inactive", "inflight"}

\* stream k is open, or its sampler runs, and no ref leads to it any more
Leaked(k) ==
    \/ sessions[k].released = 0 /\ streamRef # k
    \/ sessions[k].interval = "running" /\ silenceIntervalRef # k

\* C37 as stated: in the segmented revision there is no state with listening
\* false and nothing in flight in which an acquired stream or a sampling
\* interval is still open and out of reach of every later toggle.
C37_NoStreamLeak ==
    variant = "segmented" /\ Quiet => \A k \in DOMAIN sessions : ~Leaked(k)
\* C38 as stated: whenever listening is true, a capture session holds a
\* microphone stream or the fallback recognizer has been started; toggle
\* does not set listening when there is no recognizer to start.
C38_ListeningMeansCapturing ==
    listening =>
        \/ \E k \in DOMAIN sessions : sessions[k].released = 0
        \/ recognition = "running"

\* C39 as stated: on the fallback path a toggle-off leaves no started
\* recognizer instance running, the one that recognitionRef holds or one that
\* a change of language has replaced since the toggle-on
ToggleOff == ToggleThreeTier /\ listening /\ engine = "browser"
C39_ToggleOffStopsRecognizer ==
    [][ToggleOff => recognition' # "running" /\ replaced'.running = 0]_vars

====
